---- MODULE Spec2Model ----
(***************************************************************************)
(* Model of api/tools/codemap.py: the Tree Builder (build_directory_tree)   *)
(* and the Diagram Renderer (generate_mermaid_codemap).                     *)
(*                                                                          *)
(* Strings are sequences of code points (46 is ".", 47 is "/", 32 is " ",   *)
(* 10 is the line feed), so that basename, relpath, lower and the           *)
(* f-strings of the renderer are computed the way the code computes them.   *)
(* The file system is a snapshot fs (directory -> set of entries) built by  *)
(* the environment; the order in which os.scandir enumerates a directory is *)
(* an input of every build.                                                 *)
(***************************************************************************)
EXTENDS Naturals, Sequences, FiniteSets, TLC

VARIABLES root, fs, room, faultRoom, phase, raised, tree, content

vars == <<root, fs, room, faultRoom, phase, raised, tree, content>>

(***************************************************************************)
(* Bounds of the model.                                                     *)
(***************************************************************************)
\* entries the environment may create in an empty scan root
MaxEntries == 2
\* entries the environment may add to the pre-built chain of directories
MaxExtra == 1
\* length of the pre-built chain of nested directories
SpineDepth == 5
\* at most this many entries of a snapshot fail when they are accessed
MaxFaults == 1
\* file sizes are 1..MaxSize
MaxSize == 1

(***************************************************************************)
(* String helpers.                                                          *)
(***************************************************************************)
\* "/a/" (basename empty: the root is labelled "root") and "/env"
RootPaths == { <<47, 97, 47>>, <<47, 101, 110, 118>> }

\* ".g", "env", "a", "A", "B"
EntryNames == { <<46, 103>>, <<101, 110, 118>>, <<97>>, <<65>>, <<66>> }

\* the name of every directory of the pre-built chain: "a"
SpineName == <<97>>

\* s[i..] (Python s[i-1:])
Drop(s, n) == SubSeq(s, n + 1, Len(s))

\* s * n for a string s
RECURSIVE Repeat(_, _)
Repeat(s, n) == IF n = 0 THEN <<>> ELSE s \o Repeat(s, n - 1)

\* the components of a path: path.split("/") without the empty strings
\* (from is where the component being read began)
RECURSIVE SplitFrom(_, _, _)
SplitFrom(p, from, i) ==
    LET part == IF from < i THEN <<SubSeq(p, from, i - 1)>> ELSE <<>>
    IN IF i > Len(p) THEN part
       ELSE IF p[i] = 47 THEN part \o SplitFrom(p, i + 1, i + 1)
       ELSE SplitFrom(p, from, i + 1)

Split(p) == SplitFrom(p, 1, 1)

\* "/".join(parts)
RECURSIVE JoinSep(_)
JoinSep(parts) ==
    IF parts = <<>> THEN <<>>
    ELSE IF Len(parts) = 1 THEN parts[1]
    ELSE parts[1] \o <<47>> \o JoinSep(Tail(parts))

\* str.lower() on ASCII: "A".."Z" (65..90) map to "a".."z"
lower(s) == [i \in 1..Len(s) |-> IF s[i] >= 65 /\ s[i] <= 90 THEN s[i] + 32 ELSE s[i]]

\* s < t for Python strings: lexicographic on code points
RECURSIVE StrLess(_, _)
StrLess(s, t) ==
    IF t = <<>> THEN FALSE
    ELSE IF s = <<>> THEN TRUE
    ELSE IF s[1] < t[1] THEN TRUE
    ELSE IF s[1] > t[1] THEN FALSE
    ELSE StrLess(Tail(s), Tail(t))

\* os.path.basename: what follows the last "/"
RECURSIVE LastSlash(_, _)
LastSlash(p, i) == IF i = 0 THEN 0 ELSE IF p[i] = 47 THEN i ELSE LastSlash(p, i - 1)

basename(p) == Drop(p, LastSlash(p, Len(p)))

\* os.path.join(path, name) for a name without "/"
pathjoin(path, name) ==
    IF path # <<>> /\ path[Len(path)] # 47 THEN path \o <<47>> \o name ELSE path \o name

\* os.path.commonprefix on the two component lists
RECURSIVE CommonLen(_, _)
CommonLen(a, b) ==
    IF a = <<>> \/ b = <<>> THEN 0
    ELSE IF a[1] # b[1] THEN 0
    ELSE 1 + CommonLen(Tail(a), Tail(b))

relpath_basename(path_list, start_list) ==
    IF path_list = <<>> THEN <<>> ELSE path_list[Len(path_list)]

\* os.path.relpath(path, start) for absolute paths, given the components
\* of both: ".." for every component of start outside the common prefix,
\* then the rest of path; "." if that is empty
relpath(path_list, start_list) ==
    LET i == CommonLen(start_list, path_list)
        rel_list == [k \in 1..(Len(start_list) - i) |-> <<46, 46>>] \o Drop(path_list, i)
    IN IF rel_list = <<>> THEN <<46>> ELSE JoinSep(rel_list)

(***************************************************************************)
(* The file system seen by os.scandir, DirEntry.is_dir and DirEntry.stat.   *)
(* An entry may fail when it is accessed:                                   *)
(*   "stat"    DirEntry.stat() raises OSError (a file)                      *)
(*   "kind"    DirEntry.is_dir() raises OSError                             *)
(*   "denied"  os.scandir() of the directory raises PermissionError         *)
(*   "ioerr"   os.scandir() of the directory raises another OSError         *)
(*   "call"    the call for the directory raises before it reaches its own  *)
(*             try block (RecursionError at the interpreter's limit)        *)
(***************************************************************************)
FileFaults == {"none", "stat", "kind"}
DirFaults == {"none", "kind", "denied", "ioerr", "call"}

FileEntry(n, sz, f) == [name |-> n, is_dir |-> FALSE, size |-> sz, fault |-> f]
DirEntry(n, f) == [name |-> n, is_dir |-> TRUE, size |-> 0, fault |-> f]

Front(s) == SubSeq(s, 1, Len(s) - 1)
Last(s) == s[Len(s)]

\* the fault of the directory with components d ("none" for the scan root)
DirFault(d) ==
    IF d = <<>> \/ Front(d) \notin DOMAIN fs THEN "none"
    ELSE LET es == {e \in fs[Front(d)] : e.name = Last(d)}
         IN IF es = {} THEN "none" ELSE (CHOOSE e \in es : TRUE).fault

\* every order in which a set of entries can be enumerated
RECURSIVE Perms(_)
Perms(S) ==
    IF S = {} THEN {<<>>}
    ELSE UNION {{<<x>> \o s : s \in Perms(S \ {x})} : x \in S}

\* every choice of an enumeration order for each directory of D
RECURSIVE Orders(_)
Orders(D) ==
    IF D = {} THEN {<<>>}
    ELSE LET d == CHOOSE x \in D : TRUE
         IN {(d :> l) @@ o : l \in Perms(fs[d]), o \in Orders(D \ {d})}

\* os.scandir of the directory with components d, under the enumeration
\* orders `order`
scandir(d, order) ==
    LET fault == DirFault(d)
    IN IF fault = "denied" THEN [exc |-> "PermissionError", entries |-> <<>>]
       ELSE IF fault = "ioerr" THEN [exc |-> "OSError", entries |-> <<>>]
       ELSE [exc |-> "none", entries |-> order[d]]

(***************************************************************************)
(* build_directory_tree                                                     *)
(***************************************************************************)
\* the default of root_path: a value that is no path
None == <<0>>

FileNode(n, p, t, sz, ch) == [name |-> n, path |-> p, type |-> t, size |-> sz, children |-> ch]

\* the value of tree before the first build
NoNode == FileNode(<<>>, <<>>, "none", 0, <<>>)

\* ['__pycache__', 'node_modules', 'dist', 'build', 'venv', 'env']
EXCLUDED ==
    { <<95, 95, 112, 121, 99, 97, 99, 104, 101, 95, 95>>,
      <<110, 111, 100, 101, 95, 109, 111, 100, 117, 108, 101, 115>>,
      <<100, 105, 115, 116>>,
      <<98, 117, 105, 108, 100>>,
      <<118, 101, 110, 118>>,
      <<101, 110, 118>> }

\* entry.name.startswith('.')
IsHidden(name) == name # <<>> /\ name[1] = 46

Skipped_hiddenOnly(name) == IsHidden(name)

\* the two `continue` guards of the loop
Skipped(name) == IsHidden(name) \/ name \in EXCLUDED

KeyLess_raw(e1, e2) ==
    \/ e1.is_dir /\ ~e2.is_dir
    \/ e1.is_dir = e2.is_dir /\ StrLess(e1.name, e2.name)

\* key(e1) < key(e2) for key = (not e.is_dir(), e.name.lower())
KeyLess(e1, e2) ==
    \/ e1.is_dir /\ ~e2.is_dir
    \/ e1.is_dir = e2.is_dir /\ StrLess(lower(e1.name), lower(e2.name))

\* one step of a stable sort: e goes before the first element with a greater key
RECURSIVE Insert(_, _)
Insert(s, e) ==
    IF s = <<>> THEN <<e>>
    ELSE IF KeyLess(e, s[1]) THEN <<e>> \o s
    ELSE <<s[1]>> \o Insert(Tail(s), e)

RECURSIVE StableSort(_, _)
StableSort(done, todo) ==
    IF todo = <<>> THEN done ELSE StableSort(Insert(done, todo[1]), Tail(todo))

sorted_unsorted(scan) == scan

\* sorted(os.scandir(path), key=...): the listing fails, or a key fails
\* (is_dir raises), or the entries come back in key order, ties in
\* enumeration order
sorted(scan) ==
    IF scan.exc # "none" THEN scan
    ELSE IF \E i \in 1..Len(scan.entries) : scan.entries[i].fault = "kind"
    THEN [exc |-> "OSError", entries |-> <<>>]
    ELSE [exc |-> "none", entries |-> StableSort(<<>>, scan.entries)]

file_node_unguarded(entry, root_path, path) ==
    [exc |-> IF entry.fault = "stat" THEN "OSError" ELSE "none",
     node |-> FileNode(entry.name,
                       relpath(Split(pathjoin(path, entry.name)), Split(root_path)),
                       "file", entry.size, <<>>)]

\* the else branch of the loop: the size, 0 if stat() raises, and the node
file_node(entry, root_path, path) ==
    [exc |-> "none",
     node |-> FileNode(entry.name,
                       relpath(Split(pathjoin(path, entry.name)), Split(root_path)),
                       "file", IF entry.fault = "stat" THEN 0 ELSE entry.size, <<>>)]

Handled_nonPermissionOnly(exc) == exc # "PermissionError"

Handled_permissionOnly(exc) == exc = "PermissionError"

\* except PermissionError / except Exception: both log and fall through
Handled(exc) == exc \in {"PermissionError", "OSError", "RecursionError"}

RECURSIVE build_directory_tree(_, _, _)
RECURSIVE Loop(_, _, _, _, _, _)

\* for entry in entries, from the i-th on: the exception that ended the loop
\* ("none" if it ran to the end) and the children appended
Loop(entries, i, children, path, root_path, order) ==
    IF i > Len(entries) THEN [exc |-> "none", children |-> children]
    ELSE LET entry == entries[i]
         IN IF Skipped(entry.name)
            THEN Loop(entries, i + 1, children, path, root_path, order)
            ELSE IF entry.is_dir
            THEN LET r == build_directory_tree(pathjoin(path, entry.name), root_path, order)
                 IN IF r.exc # "none"
                    THEN [exc |-> r.exc, children |-> children]
                    ELSE Loop(entries, i + 1, Append(children, r.node), path, root_path, order)
            ELSE LET f == file_node(entry, root_path, path)
                 IN IF f.exc # "none"
                    THEN [exc |-> f.exc, children |-> children]
                    ELSE Loop(entries, i + 1, Append(children, f.node), path, root_path, order)

build_directory_tree(path, root_path0, order) ==
    LET \* the directory the path resolves to
        d == Split(path)
        root_path == IF root_path0 = None THEN path ELSE root_path0
        name == IF path = root_path /\ basename(path) = <<>>
                THEN <<114, 111, 111, 116>>
                ELSE basename(path)
        entries == sorted(scandir(d, order))
        body == IF entries.exc # "none"
                THEN [exc |-> entries.exc, children |-> <<>>]
                ELSE Loop(entries.entries, 1, <<>>, path, root_path, order)
    IN IF DirFault(d) = "call"
       THEN [exc |-> "RecursionError", node |-> NoNode]
       ELSE [exc |-> IF Handled(body.exc) THEN "none" ELSE body.exc,
             node |-> FileNode(name, relpath(d, Split(root_path)), "directory", 0,
                               body.children)]

\* generate_codemap_data(repo_path)
generate_codemap_data(repo_path, order) == build_directory_tree(repo_path, None, order)

(***************************************************************************)
(* generate_mermaid_codemap                                                 *)
(***************************************************************************)
LimitReached_4(level) == level > 4

\* if level > 3: return
LimitReached(level) == level > 3

prefix_level(level) == Repeat(<<32, 32, 32, 32>>, level)

\* prefix = "    " * (level + 1)
prefix(level) == Repeat(<<32, 32, 32, 32>>, level + 1)

Rendered_all(child) == TRUE

\* if child.type == 'directory'
Rendered(child) == child.type = "directory"

\* the text that _add_nodes(parent_node, level) appends to content
RECURSIVE _add_nodes(_, _)
RECURSIVE AddChildren(_, _, _)

AddChildren(children, i, level) ==
    IF i > Len(children) THEN <<>>
    ELSE LET child == children[i]
         IN (IF Rendered(child)
             THEN prefix(level) \o child.name \o <<10>> \o _add_nodes(child, level + 1)
             ELSE <<>>)
            \o AddChildren(children, i + 1, level)

_add_nodes(parent_node, level) ==
    IF LimitReached(level) THEN <<>> ELSE AddChildren(parent_node.children, 1, level)

\* "mindmap\n" + "  root((" + node.name + "))\n" + the lines of _add_nodes(node, 0)
generate_mermaid_codemap(node) ==
    <<109, 105, 110, 100, 109, 97, 112, 10>>
    \o <<32, 32, 114, 111, 111, 116, 40, 40>> \o node.name \o <<41, 41, 10>>
    \o _add_nodes(node, 0)

(***************************************************************************)
(* The state machine: the environment fills the scan root, the caller       *)
(* builds the tree (any number of times, on the same snapshot) and renders  *)
(* the last tree built. Spec starts from an empty scan root, SpecDeep from   *)
(* a chain of nested directories.                                           *)
(***************************************************************************)
\* the chain root/a/a/.../a of n nested directories below the directory d
RECURSIVE Spine(_, _)
Spine(d, n) ==
    IF n = 0 THEN (d :> {})
    ELSE (d :> {DirEntry(SpineName, "none")}) @@ Spine(Append(d, SpineName), n - 1)

\* an empty scan root, which the environment fills
Init ==
    /\ root \in RootPaths
    /\ fs = (Split(root) :> {})
    /\ room = MaxEntries
    /\ faultRoom = MaxFaults
    /\ phase = "setup"
    /\ raised = FALSE
    /\ tree = NoNode
    /\ content = <<>>

\* a scan root that holds a chain of nested directories, deeper than the
\* renderer goes, to which the environment adds entries that do not fail
InitDeep ==
    /\ root \in RootPaths
    /\ fs = Spine(Split(root), SpineDepth)
    /\ room = MaxExtra
    /\ faultRoom = 0
    /\ phase = "setup"
    /\ raised = FALSE
    /\ tree = NoNode
    /\ content = <<>>

NameFree(d, n) == \A e \in fs[d] : e.name # n

FaultCost(f) == IF f = "none" THEN 0 ELSE 1

\* the environment creates the directory n in the directory d
Mkdir(d, n, f) ==
    /\ phase = "setup"
    /\ room > 0
    /\ faultRoom >= FaultCost(f)
    /\ NameFree(d, n)
    /\ fs' = [fs EXCEPT ![d] = @ \cup {DirEntry(n, f)}] @@ (Append(d, n) :> {})
    /\ room' = room - 1
    /\ faultRoom' = faultRoom - FaultCost(f)
    /\ UNCHANGED <<root, phase, raised, tree, content>>

\* the environment creates the file n of size sz in the directory d
Touch(d, n, sz, f) ==
    /\ phase = "setup"
    /\ room > 0
    /\ faultRoom >= FaultCost(f)
    /\ NameFree(d, n)
    /\ fs' = [fs EXCEPT ![d] = @ \cup {FileEntry(n, sz, f)}]
    /\ room' = room - 1
    /\ faultRoom' = faultRoom - FaultCost(f)
    /\ UNCHANGED <<root, phase, raised, tree, content>>

\* generate_codemap_data(root), the directories enumerated in the orders `order`
Build(order) ==
    /\ phase \in {"setup", "built"}
    /\ LET r == generate_codemap_data(root, order)
       IN /\ tree' = r.node
          /\ raised' = (r.exc # "none")
    /\ phase' = "built"
    /\ UNCHANGED <<root, fs, room, faultRoom, content>>

\* generate_mermaid_codemap(tree)
Render ==
    /\ phase = "built"
    /\ content' = generate_mermaid_codemap(tree)
    /\ phase' = "rendered"
    /\ UNCHANGED <<root, fs, room, faultRoom, raised, tree>>

Next ==
    \/ \E d \in DOMAIN fs, n \in EntryNames, f \in DirFaults : Mkdir(d, n, f)
    \/ \E d \in DOMAIN fs, n \in EntryNames, sz \in 1..MaxSize, f \in FileFaults :
          Touch(d, n, sz, f)
    \/ \E order \in Orders(DOMAIN fs) : Build(order)
    \/ Render

Spec == Init /\ [][Next]_vars

SpecDeep == InitDeep /\ [][Next]_vars

(***************************************************************************)
(* Vocabulary of the properties.                                            *)
(***************************************************************************)
Built == phase \in {"built", "rendered"}

RootDir == Split(root)

\* a name the Tree Builder admits: not hidden, not in the exclusion set
Admissible(name) == ~(name # <<>> /\ name[1] = 46) /\ name \notin EXCLUDED

\* e1 sorts strictly before e2: directories first, then the lower-cased name
Before(e1, e2) ==
    \/ e1.is_dir /\ ~e2.is_dir
    \/ e1.is_dir = e2.is_dir /\ StrLess(lower(e1.name), lower(e2.name))

\* every node of a tree, the root included
RECURSIVE Nodes(_)
Nodes(n) == {n} \cup UNION {Nodes(n.children[i]) : i \in 1..Len(n.children)}

\* the nodes k levels below n
RECURSIVE NodesAt(_, _)
NodesAt(n, k) ==
    IF k = 0 THEN {n}
    ELSE UNION {NodesAt(n.children[i], k - 1) : i \in 1..Len(n.children)}

HasChild(node, e) ==
    \E i \in 1..Len(node.children) :
        /\ node.children[i].name = e.name
        /\ node.children[i].type = IF e.is_dir THEN "directory" ELSE "file"

ChildOf(node, e) ==
    node.children[CHOOSE i \in 1..Len(node.children) : node.children[i].name = e.name]

\* the lines of a text: the pieces that end in a line feed (from is where
\* the line being read began)
RECURSIVE LinesFrom(_, _, _)
LinesFrom(s, from, i) ==
    IF i > Len(s) THEN <<>>
    ELSE IF s[i] = 10 THEN <<SubSeq(s, from, i - 1)>> \o LinesFrom(s, i + 1, i + 1)
    ELSE LinesFrom(s, from, i + 1)

Lines == LinesFrom(content, 1, 1)

\* the number of leading spaces of a line
RECURSIVE Indent(_)
Indent(l) == IF l # <<>> /\ l[1] = 32 THEN 1 + Indent(Tail(l)) ELSE 0

Label(l) == Drop(l, Indent(l))

\* the indentation of every line of the lines L
Indents(L) == [i \in 1..Len(L) |-> Indent(L[i])]

\* the lines after the header and the root line
ChildLines(L) == 3..Len(L)

\* the line the i-th line hangs under: the nearest line above it that is
\* indented less (0 if there is none), ind being the indentations
ParentLine(ind, i) ==
    LET above == {j \in 2..(i - 1) : ind[j] < ind[i]}
    IN IF above = {} THEN 0 ELSE CHOOSE j \in above : \A k \in above : k <= j

(***************************************************************************)
(* Diagram Renderer                                                         *)
(***************************************************************************)
\* C1 (as stated): no line of the diagram is a directory more than 3 levels
\* below the root; a level is four spaces of indentation.
C1_DepthAtMost3 ==
    phase = "rendered" =>
        LET ind == Indents(Lines)
        IN \A i \in ChildLines(ind) : ind[i] <= 4 * 3

\* C1 (amended): the guard `level > 3` is tested on the parent's level, so
\* the directories 4 levels below the root are still emitted and nothing
\* deeper is: every level from 1 to 4 has one line for each of its
\* directories, and no line is deeper than level 4.
C1_DepthAtMost4 ==
    phase = "rendered" =>
        LET ind == Indents(Lines)
        IN /\ \A i \in ChildLines(ind) : ind[i] <= 4 * 4
           /\ \A k \in 1..4 :
                 Cardinality({i \in ChildLines(ind) : ind[i] = 4 * k})
                     = Cardinality({n \in NodesAt(tree, k) : n.type = "directory"})

\* a tree with a directory 5 levels down was rendered: level 4 is in the
\* diagram, level 5 is not
C1_Witness ==
    /\ phase = "rendered"
    /\ \E n \in NodesAt(tree, 5) : n.type = "directory"
    /\ LET ind == Indents(Lines)
       IN /\ \E i \in ChildLines(ind) : ind[i] = 4 * 4
          /\ \A i \in ChildLines(ind) : ind[i] # 4 * 5

C9_OneUnitFromRoot ==
    phase = "rendered" =>
        LET ind == Indents(Lines)
        IN \E u \in 1..8 :
               \A i \in ChildLines(ind) :
                   /\ ParentLine(ind, i) # 0
                   /\ ind[i] = ind[ParentLine(ind, i)] + u

\* C9 (amended): the root line is indented by two spaces and the lines of
\* level 1 by four; from level 1 on every line is indented four spaces more
\* than the line it hangs under.
C9_FourPerLevelBelowRoot ==
    phase = "rendered" =>
        LET ind == Indents(Lines)
        IN /\ ind[2] = 2
           /\ \A i \in ChildLines(ind) :
                 LET parent == ParentLine(ind, i)
                 IN /\ parent # 0
                    /\ ind[i] = IF parent = 2 THEN 4 ELSE ind[parent] + 4

\* a diagram with a line of level 2 under a line of level 1
C9_Witness ==
    /\ phase = "rendered"
    /\ LET ind == Indents(Lines)
       IN \E i \in ChildLines(ind) : ParentLine(ind, i) >= 3

(***************************************************************************)
(* Tree Builder                                                             *)
(***************************************************************************)
\* C2 (as stated): no node of a built tree, the root included, has a hidden
\* or an excluded name.
C2_NoExcludedNameAnywhere ==
    Built => \A n \in Nodes(tree) : Admissible(n.name)

\* C2 (amended): the filter is applied to the entries of the directories
\* scanned, never to the scan root itself, whose node takes the basename of
\* the path given: every node other than the root has an admissible name.
C2_NoExcludedNameBelowRoot ==
    Built => \A n \in Nodes(tree) \ {tree} : Admissible(n.name)

\* a scan root with an excluded directory that has an entry of its own:
\* neither is in the tree
C2_Witness ==
    /\ Built
    /\ \E e \in fs[RootDir] :
          /\ e.name \in EXCLUDED
          /\ e.is_dir /\ e.fault = "none"
          /\ fs[Append(RootDir, e.name)] # {}
    /\ tree.children = <<>>

\* C3: in every directory node the directories come before the files and,
\* within each kind, the lower-cased names never decrease.
C3_Ordering ==
    Built =>
        \A n \in Nodes(tree) :
            \A i, j \in 1..Len(n.children) :
                i < j =>
                    LET a == n.children[i]
                        b == n.children[j]
                    IN /\ ~(a.type = "file" /\ b.type = "directory")
                       /\ a.type = b.type => ~StrLess(lower(b.name), lower(a.name))

\* a directory was put before a file whose name sorts first
C3_Witness ==
    /\ Built
    /\ Len(tree.children) = 2
    /\ tree.children[1].type = "directory"
    /\ tree.children[2].type = "file"
    /\ StrLess(lower(tree.children[2].name), lower(tree.children[1].name))

\* two entries of one directory and of one kind whose names differ in case only
CaseTie ==
    \E d \in DOMAIN fs :
        \E e1, e2 \in fs[d] :
            e1 # e2 /\ e1.is_dir = e2.is_dir /\ lower(e1.name) = lower(e2.name)

\* C4 (as stated): two consecutive builds of one snapshot give the same tree
\* whatever the enumeration orders: a build that follows a build changes
\* nothing.
C4_Deterministic ==
    [][(phase = "built" /\ phase' = "built") => tree' = tree]_vars

\* C4 (amended): the sort key is (kind, lower-cased name) and the sort is
\* stable, so two builds agree whenever no directory holds two entries of one
\* kind whose names differ only in letter case; such entries keep the order
\* of enumeration.
C4_DeterministicWithoutCaseTies ==
    [][(phase = "built" /\ phase' = "built" /\ ~CaseTie) => tree' = tree]_vars

\* a build of a scan root with two children and no case tie, their names in
\* the other order when compared with their case: it can be built again,
\* the entries enumerated in either order
C4_Witness ==
    /\ phase = "built"
    /\ ~CaseTie
    /\ Len(tree.children) = 2
    /\ tree.children[1].type = tree.children[2].type
    /\ StrLess(tree.children[2].name, tree.children[1].name)

\* the only failures of the snapshot are directories that deny enumeration
OnlyDenied == \A d \in DOMAIN fs : \A e \in fs[d] : e.fault \in {"none", "denied"}

\* node is the directory d with all that can be reached in it: nothing for a
\* denied directory, else one child per admissible entry, populated in turn
RECURSIVE Populated(_, _)
Populated(d, node) ==
    /\ node.type = "directory"
    /\ IF DirFault(d) = "denied"
       THEN node.children = <<>>
       ELSE /\ Len(node.children) = Cardinality({e \in fs[d] : Admissible(e.name)})
            /\ \A e \in fs[d] :
                  Admissible(e.name) =>
                      /\ HasChild(node, e)
                      /\ e.is_dir => Populated(Append(d, e.name), ChildOf(node, e))

\* C5: whatever directories deny enumeration, the build returns a tree and
\* raises nothing; a denied directory is a directory node without children
\* and every accessible directory is fully populated.
C5_PartialFailure ==
    (Built /\ OnlyDenied) => (~raised /\ Populated(RootDir, tree))

\* a denied directory, sorted first, next to an accessible entry: both are
\* children of the root
C5_Witness ==
    /\ Built
    /\ OnlyDenied
    /\ Len(tree.children) = 2
    /\ \E e \in fs[RootDir] :
          /\ e.fault = "denied"
          /\ e.name = tree.children[1].name

\* node and all below it carry the path of their source entry relative to
\* the scan root; rel is the list of names from the root down to node
RECURSIVE PathsFrom(_, _)
PathsFrom(rel, node) ==
    /\ node.path = IF rel = <<>> THEN <<46>> ELSE JoinSep(rel)
    /\ rel # <<>> => /\ node.name = Last(rel)
                     /\ \E e \in fs[RootDir \o Front(rel)] : e.name = Last(rel)
    /\ \A i \in 1..Len(node.children) :
          PathsFrom(Append(rel, node.children[i].name), node.children[i])

\* C6: the root's path is "." and every other node's path is the names from
\* the scan root down to its source entry joined by "/": the parent's path
\* joined with the child's name, the name alone under the root.
C6_Paths ==
    Built =>
        /\ PathsFrom(<<>>, tree)
        /\ \A n \in Nodes(tree) :
              \A i \in 1..Len(n.children) :
                  n.children[i].path =
                      IF n = tree THEN n.children[i].name
                      ELSE n.path \o <<47>> \o n.children[i].name

\* a tree with a file three levels or more below the root
C6_Witness ==
    /\ Built
    /\ \E n \in Nodes(tree) : n.type = "file" /\ Len(Split(n.path)) >= 3

\* nothing but the size of a file fails while the directory d is enumerated:
\* the listing succeeds, every kind check succeeds and no admitted
\* subdirectory fails to be entered
OnlyStatFails(d) ==
    /\ DirFault(d) \notin {"denied", "ioerr"}
    /\ \A e \in fs[d] : e.fault # "kind" /\ (Admissible(e.name) => e.fault # "call")

\* the size the node of the file entry e must carry
ExpectedSize(e) == IF e.fault = "stat" THEN 0 ELSE e.size

RECURSIVE SizesFrom(_, _)
SizesFrom(d, node) ==
    /\ OnlyStatFails(d) =>
          \A e \in fs[d] :
              Admissible(e.name) =>
                  /\ HasChild(node, e)
                  /\ ~e.is_dir => ChildOf(node, e).size = ExpectedSize(e)
    /\ \A i \in 1..Len(node.children) :
          node.children[i].type = "directory" =>
              SizesFrom(Append(d, node.children[i].name), node.children[i])

\* C7: a file whose size cannot be read is a file node of size 0, and the loop
\* goes on: in a directory where nothing else fails every admissible entry
\* has its node, each file with its own size.
C7_SizeDefault ==
    Built => SizesFrom(RootDir, tree)

\* a file whose size cannot be read, sorted before a readable file of the
\* same directory
C7_Witness ==
    /\ Built
    /\ \E e1, e2 \in fs[RootDir] :
          /\ Admissible(e1.name) /\ Admissible(e2.name)
          /\ ~e1.is_dir /\ ~e2.is_dir
          /\ e1.fault = "stat" /\ e2.fault = "none"
          /\ Before(e1, e2)
          /\ HasChild(tree, e1) /\ ChildOf(tree, e1).size = 0
          /\ HasChild(tree, e2) /\ ChildOf(tree, e2).size = e2.size

\* the entries of d whose processing raises in the loop: the admitted
\* subdirectories that cannot be entered
Failing(d) == {e \in fs[d] : Admissible(e.name) /\ e.fault = "call"}

\* the listing or the sort of d raises something other than PermissionError
ListingFails(d) == DirFault(d) = "ioerr" \/ \E e \in fs[d] : e.fault = "kind"

\* a non-permission error is raised while d is enumerated or processed
NonPermissionError(d) ==
    DirFault(d) # "denied" /\ (ListingFails(d) \/ Failing(d) # {})

RECURSIVE AllOthersKept(_, _)
AllOthersKept(d, node) ==
    /\ (NonPermissionError(d) /\ DirFault(d) # "ioerr") =>
          \A e \in fs[d] : (Admissible(e.name) /\ e.fault = "none") => HasChild(node, e)
    /\ \A i \in 1..Len(node.children) :
          node.children[i].type = "directory" =>
              AllOthersKept(Append(d, node.children[i].name), node.children[i])

\* C10 (as stated): after a non-permission error in a directory D the build
\* still returns, and every other admissible, accessible entry of D is a
\* child of D.
C10_AllOthersKept ==
    Built => (~raised /\ AllOthersKept(RootDir, tree))

RECURSIVE PrefixKept(_, _)
PrefixKept(d, node) ==
    /\ NonPermissionError(d) =>
          IF ListingFails(d)
          THEN node.children = <<>>
          ELSE \A e \in fs[d] :
                  Admissible(e.name) =>
                      /\ (\A f \in Failing(d) : Before(e, f)) => HasChild(node, e)
                      /\ (\E f \in Failing(d) : f = e \/ Before(f, e)) =>
                            \A i \in 1..Len(node.children) :
                                node.children[i].name # e.name
    /\ \A i \in 1..Len(node.children) :
          node.children[i].type = "directory" =>
              PrefixKept(Append(d, node.children[i].name), node.children[i])

\* C10 (amended): one try block spans the listing, the sort and the whole
\* loop. The build returns D's node without raising and keeps the children
\* appended before the error, and nothing else: no child at all when the
\* listing or a kind check (made by the sort) fails, and otherwise the
\* admissible entries sorted before the entry whose processing raised; that
\* entry and those sorted after it are omitted.
C10_PrefixKept ==
    Built => (~raised /\ PrefixKept(RootDir, tree))

\* a subdirectory that cannot be entered, sorted after an entry that was
\* kept
C10_Witness ==
    /\ Built
    /\ \E e1, f \in fs[RootDir] :
          /\ f \in Failing(RootDir)
          /\ Admissible(e1.name) /\ Before(e1, f) /\ HasChild(tree, e1)
          /\ ~HasChild(tree, f)

====
